---------------------------- MODULE Spec2Model ----------------------------
(***************************************************************************)
(* gift-shop-sync: the Google-Sheets -> products-table synchronisation     *)
(* service, in its four source variants:                                   *)
(*   "mysql"     src/index.js                  (guard, mysql2 connection)  *)
(*   "mysqlDual" src/unnamed/part_000:1-317    (guard, mysql2, zh/en)      *)
(*   "pgpool"    src/unnamed/part_000:319-516  (guard, pg dbPool.query)    *)
(*   "pgtx"      src/unnamed/part_001:1-193    (no guard, pg client, txn)  *)
(*                                                                         *)
(* Node runs one callback at a time, so a step of the model is the code    *)
(* that runs between two awaits of one syncData invocation.  Every awaited *)
(* call (Sheets API, database statement) either succeeds or throws.        *)
(*                                                                         *)
(* Cells are sequences of one-character strings, numbers are hundredths.   *)
(***************************************************************************)
EXTENDS Integers, Sequences, FiniteSets, TLC

VARIABLES
    variant,        \* which source file is the running program
    configOk,       \* SPREADSHEET_ID, GOOGLE_SERVICE_ACCOUNT_EMAIL, GOOGLE_PRIVATE_KEY all set
    sheet,          \* the rows sheet.getRows() delivers (raw cells)
    isSyncRunning,  \* the guard flag (line 3 of index.js / part_000)
    runs,           \* the syncData invocations, in the order they were triggered
    table,          \* the committed rows of the products table (what a reader sees)
    lock,           \* PostgreSQL: run holding the ACCESS EXCLUSIVE lock of TRUNCATE, 0 if none
    api             \* the last answer of GET /health or GET /api/products, <<>> before the first

vars == <<variant, configOk, sheet, isSyncRunning, runs, table, lock, api>>

-----------------------------------------------------------------------------
(* Bounds *)

MaxRuns == 2        \* syncData invocations per behaviour
MaxRows == 2        \* rows of the sheet

-----------------------------------------------------------------------------
(* JavaScript values *)

Undefined == <<"<undefined>">>
Null      == <<"<null>">>
NaN       == [nan |-> TRUE,  v |-> 0]
Num(n)    == [nan |-> FALSE, v |-> n]

Digits == {"0", "1", "2", "3", "4", "5", "6", "7", "8", "9"}

DigitVal(c) ==
    CASE c = "0" -> 0 [] c = "1" -> 1 [] c = "2" -> 2 [] c = "3" -> 3
      [] c = "4" -> 4 [] c = "5" -> 5 [] c = "6" -> 6 [] c = "7" -> 7
      [] c = "8" -> 8 [] c = "9" -> 9

\* a string is truthy unless it is empty; undefined and null are falsy
TruthyStr(s) == s # Undefined /\ s # Null /\ s # <<>>

\* a number is truthy unless it is 0 or NaN
TruthyNum(x) == ~x.nan /\ x.v # 0

RECURSIVE TrimStart(_)
TrimStart(s) == IF s # <<>> /\ Head(s) = " " THEN TrimStart(Tail(s)) ELSE s

RECURSIVE TrimEnd(_)
TrimEnd(s) ==
    IF s # <<>> /\ s[Len(s)] = " " THEN TrimEnd(SubSeq(s, 1, Len(s) - 1)) ELSE s

\* String.prototype.trim
Trim(s) == TrimEnd(TrimStart(s))

\* the comma read as the decimal point
RECURSIVE CommasToPoints(_)
CommasToPoints(s) ==
    IF s = <<>> THEN <<>>
    ELSE IF Head(s) = "," THEN <<".">> \o CommasToPoints(Tail(s))
    ELSE <<Head(s)>> \o CommasToPoints(Tail(s))

\* s.replace(/,/g, '')
RECURSIVE StripCommas(_)
StripCommas(s) ==
    IF s = <<>> THEN <<>>
    ELSE IF Head(s) = "," THEN StripCommas(Tail(s))
    ELSE <<Head(s)>> \o StripCommas(Tail(s))

RECURSIVE AllDigits(_)
AllDigits(s) == s = <<>> \/ (Head(s) \in Digits /\ AllDigits(Tail(s)))

RECURSIVE DigitsValue(_)
DigitsValue(s) ==
    IF s = <<>> THEN 0 ELSE DigitsValue(SubSeq(s, 1, Len(s) - 1)) * 10 + DigitVal(s[Len(s)])

DotAt(s) == IF \E i \in 1..Len(s) : s[i] = "."
            THEN CHOOSE i \in 1..Len(s) : s[i] = "." /\ \A j \in 1..(i - 1) : s[j] # "."
            ELSE 0

\* the unsigned decimal literal s in hundredths (at most two fraction digits are kept)
UnsignedValue(s) ==
    LET d    == DotAt(s)
        ip   == IF d = 0 THEN s ELSE SubSeq(s, 1, d - 1)
        fp   == IF d = 0 THEN <<>> ELSE SubSeq(s, d + 1, Len(s))
        frac == IF Len(fp) = 0 THEN 0
                ELSE IF Len(fp) = 1 THEN DigitVal(fp[1]) * 10
                ELSE DigitVal(fp[1]) * 10 + DigitVal(fp[2])
    IN  IF AllDigits(ip) /\ AllDigits(fp) /\ Len(ip) + Len(fp) > 0
        THEN Num(DigitsValue(ip) * 100 + frac)
        ELSE NaN

\* Number(x) of a cell: undefined is NaN, blank is 0, a decimal literal is its value,
\* anything else is NaN
ToNumber(s) ==
    IF s = Undefined THEN NaN
    ELSE IF s = Null THEN Num(0)
    ELSE LET t == Trim(s)
         IN  IF t = <<>> THEN Num(0)
             ELSE IF Head(t) = "-"
                  THEN LET u == UnsignedValue(Tail(t))
                       IN  IF u.nan THEN NaN ELSE Num(0 - u.v)
                  ELSE UnsignedValue(t)

\* x || null, of a string cell
OrNull(s) == IF TruthyStr(s) THEN s ELSE Null

\* x || '', of a string cell
OrEmpty(s) == IF TruthyStr(s) THEN s ELSE <<>>

\* a cell of a row: undefined where the row has no such cell
Cell(raw, f) == IF f \in DOMAIN raw THEN raw[f] ELSE Undefined

LowerChar(c) ==
    CASE c = "E" -> "e" [] c = "N" -> "n" [] c = "Z" -> "z" [] c = "H" -> "h"
      [] OTHER -> c

\* String.prototype.toLowerCase
ToLowerCase(s) == [i \in 1..Len(s) |-> LowerChar(s[i])]


-----------------------------------------------------------------------------
(* The sheet *)

\* raw rows: the id cell (raw[0] / row.id), the name cell (raw[2] / row.name) and
\* the price cell (raw[3] / row.price)
RowMug    == [id |-> <<"1">>, name |-> <<"M", "u", "g">>, price |-> <<"9", ",", "9", "9">>]
RowNoName == [id |-> <<"2">>, name |-> <<>>,              price |-> <<"5", ".", "0", "0">>]
RowCup    == [id |-> <<"2">>, name |-> <<"C", "u", "p">>, price |-> <<"5", ".", "0", "0">>]
RowPen    == [id |-> <<"1">>, name |-> <<"P", "e", "n">>, price |-> <<"3">>]

RawRows == {RowMug, RowNoName, RowCup, RowPen}

Sheets == UNION {[1..n -> RawRows] : n \in 0..MaxRows}

\* rows told apart by their id cell: missing, not a number, zero, negative,
\* fractional, a positive integer
RowNoId       == [id |-> Undefined,            name |-> <<"M", "u", "g">>, price |-> <<"3">>]
RowIdText     == [id |-> <<"a", "b", "c">>,    name |-> <<"M", "u", "g">>, price |-> <<"3">>]
RowIdZero     == [id |-> <<"0">>,              name |-> <<"M", "u", "g">>, price |-> <<"3">>]
RowIdNegative == [id |-> <<"-", "1">>,         name |-> <<"M", "u", "g">>, price |-> <<"3">>]
RowIdFraction == [id |-> <<"1", ".", "5">>,    name |-> <<"M", "u", "g">>, price |-> <<"3">>]
RowIdThree    == [id |-> <<"3">>,              name |-> <<"M", "u", "g">>, price |-> <<"3">>]

IdRows == {RowNoId, RowIdText, RowIdZero, RowIdNegative, RowIdFraction, RowIdThree,
           RowNoName}

IdSheets == UNION {[1..n -> IdRows] : n \in 0..MaxRows}

\* a row of the sheet of part_001 with its five text cells filled in (the cells
\* under the headers display_desc, detail_desc, product_desc, specs, shipping_info)
RowMugTexts ==
    [id |-> <<"1">>, name |-> <<"M", "u", "g">>, price |-> <<"3">>,
     display_desc  |-> <<"d", "i", "s">>,
     detail_desc   |-> <<"d", "e", "t">>,
     product_desc  |-> <<"p", "r", "o">>,
     specs         |-> <<"s", "p", "e">>,
     shipping_info |-> <<"s", "h", "i">>]

TextRows == {RowMugTexts, RowCup}

TextSheets == UNION {[1..n -> TextRows] : n \in 0..MaxRows}

\* a row whose status cell (raw[6]) puts it on the shelf
RowShelf == [id |-> <<"2">>, name |-> <<"C", "u", "p">>, price |-> <<"5", ".", "0", "0">>,
             status |-> <<"on-shelf">>]

ShelfSheets == UNION {[1..n -> {RowShelf}] : n \in 0..MaxRows}

\* sheets of one and the same row
CupSheets == UNION {[1..n -> {RowCup}] : n \in 0..MaxRows}

\* a row left in the table by an earlier pass (name_zh in the dual-locale table)
OldRow     == [id |-> Num(900), name |-> <<"O", "l", "d">>, price |-> Num(100)]
OldRowDual ==
    [id |-> Num(900), name_zh |-> <<"O", "l", "d">>, price |-> Num(100), status |-> Null,
     display_desc_zh |-> Null, gift_detail_desc_zh |-> Null, product_desc_zh |-> Null,
     product_specs_zh |-> Null, shipping_info_zh |-> Null,
     name_en |-> Null, display_desc_en |-> Null, gift_detail_desc_en |-> Null,
     product_desc_en |-> Null, product_specs_en |-> Null, shipping_info_en |-> Null]

\* the same in the table of part_001 (its columns are listed at StoredRowTx)
OldRowTx ==
    [id |-> Num(900), name |-> <<"O", "l", "d">>, price |-> Num(100),
     description |-> Null, status |-> <<"a", "c", "t", "i", "v", "e">>,
     specs |-> Null, shipping_info |-> Null,
     col_product_desc |-> Null, col_product_specs |-> Null,
     col_gift_detail_desc |-> Null, col_display_desc |-> Null]

PriorTables(v) ==
    CASE v = "mysqlDual" -> {{}, {OldRowDual}}
      [] v = "pgtx"      -> {{}, {OldRowTx}}
      [] OTHER           -> {{}, {OldRow}}

-----------------------------------------------------------------------------
(* Record Validator/Mapper: rows.map(...).filter(...) *)

\* index.js and the pool-query variant: positional cells, commas stripped from the price
MapRowRaw(raw) ==
    [id    |-> ToNumber(raw.id),
     name  |-> OrNull(raw.name),
     price |-> ToNumber(StripCommas(OrEmpty(raw.price)))]

\* the dual-locale variant: the same cells, the name stored as name_zh, the Chinese
\* texts from raw[7..11], the English name and texts from raw[12..17]
MapRowDual(raw) ==
    [id                  |-> ToNumber(raw.id),
     name_zh             |-> OrNull(raw.name),
     display_desc_zh     |-> OrNull(Cell(raw, "display_desc")),
     gift_detail_desc_zh |-> OrNull(Cell(raw, "gift_detail_desc")),
     product_desc_zh     |-> OrNull(Cell(raw, "product_desc")),
     product_specs_zh    |-> OrNull(Cell(raw, "product_specs")),
     shipping_info_zh    |-> OrNull(Cell(raw, "shipping_info")),
     name_en             |-> OrNull(Cell(raw, "name_en")),
     display_desc_en     |-> OrNull(Cell(raw, "display_desc_en")),
     gift_detail_desc_en |-> OrNull(Cell(raw, "gift_detail_desc_en")),
     product_desc_en     |-> OrNull(Cell(raw, "product_desc_en")),
     product_specs_en    |-> OrNull(Cell(raw, "product_specs_en")),
     shipping_info_en    |-> OrNull(Cell(raw, "shipping_info_en")),
     price               |-> ToNumber(StripCommas(OrEmpty(raw.price))),
     status              |-> OrNull(Cell(raw, "status"))]

\* row.status || 'active'
OrActive(s) == IF TruthyStr(s) THEN s ELSE <<"a", "c", "t", "i", "v", "e">>

\* the transactional variant: cells by header, the name trimmed, the price as it is
MapRowTx(raw) ==
    [id            |-> ToNumber(raw.id),
     name          |-> IF raw.name = Undefined THEN Undefined ELSE Trim(raw.name),
     price         |-> ToNumber(raw.price),
     status        |-> OrActive(Cell(raw, "status")),
     display_desc  |-> OrNull(Cell(raw, "display_desc")),
     detail_desc   |-> OrNull(Cell(raw, "detail_desc")),
     product_desc  |-> OrNull(Cell(raw, "product_desc")),
     specs         |-> OrNull(Cell(raw, "specs")),
     shipping_info |-> OrNull(Cell(raw, "shipping_info"))]

MapRow(raw) ==
    CASE variant \in {"mysql", "pgpool"} -> MapRowRaw(raw)
      [] variant = "mysqlDual"           -> MapRowDual(raw)
      [] variant = "pgtx"                -> MapRowTx(raw)

\* the text fields the mapper of part_001 produces
TextFields == {"display_desc", "detail_desc", "product_desc", "specs", "shipping_info"}

\* .filter(p => p.id && p.name)
ValidRaw(p) == TruthyNum(p.id) /\ TruthyStr(p.name)

\* .filter(p => p.id && p.name_zh)
ValidDual(p) == TruthyNum(p.id) /\ TruthyStr(p.name_zh)

\* .filter(p => p.id && p.name && !Number.isNaN(p.price))
ValidTx(p) == TruthyNum(p.id) /\ TruthyStr(p.name) /\ ~p.price.nan

Valid(p) ==
    CASE variant \in {"mysql", "pgpool"} -> ValidRaw(p)
      [] variant = "mysqlDual"           -> ValidDual(p)
      [] variant = "pgtx"                -> ValidTx(p)

RECURSIVE FilterValid(_)
FilterValid(ps) ==
    IF ps = <<>> THEN <<>>
    ELSE IF Valid(Head(ps)) THEN <<Head(ps)>> \o FilterValid(Tail(ps))
    ELSE FilterValid(Tail(ps))

\* the products array of one pass
Products(rows) == FilterValid([i \in 1..Len(rows) |-> MapRow(rows[i])])


-----------------------------------------------------------------------------
(* The relational store *)

MySQL   == variant \in {"mysql", "mysqlDual"}
Guarded == variant \in {"mysql", "mysqlDual", "pgpool"}

\* MySQL rounds a decimal literal to the INT column, half away from zero
RoundInt(v) == IF v >= 0 THEN ((v + 50) \div 100) * 100
               ELSE 0 - (((0 - v) + 50) \div 100) * 100

\* a property the product object does not have, as a query parameter: NULL
NoSuchProperty == Null

\* the row the INSERT of part_001 stores: the columns id, name, price, description,
\* status, specs, shipping_info and the four columns with Chinese names (产品描述,
\* 产品规格, 礼品详情描述, 展示页描述), filled from product.description,
\* product.产品描述, ... which the mapper never sets
StoredRowTx(p) ==
    [id                   |-> p.id,
     name                 |-> p.name,
     price                |-> p.price,
     description          |-> NoSuchProperty,
     status               |-> p.status,
     specs                |-> p.specs,
     shipping_info        |-> p.shipping_info,
     col_product_desc     |-> NoSuchProperty,
     col_product_specs    |-> NoSuchProperty,
     col_gift_detail_desc |-> NoSuchProperty,
     col_display_desc     |-> NoSuchProperty]

\* the text columns of that row
TextColumns == {"description", "specs", "shipping_info", "col_product_desc",
                "col_product_specs", "col_gift_detail_desc", "col_display_desc"}

\* the row an INSERT of product p stores
StoredRow(p) ==
    IF MySQL THEN [p EXCEPT !.id = Num(RoundInt(p.id.v))]
    ELSE IF variant = "pgtx" THEN StoredRowTx(p)
    ELSE p

Ids(rows) == {r.id : r \in rows}

\* the statement cannot be executed: MySQL: NaN is no literal; PostgreSQL: a
\* fractional id is no INTEGER
BadValue(p) ==
    \/ MySQL /\ p.price.nan
    \/ ~MySQL /\ p.id.v % 100 # 0

\* id INT PRIMARY KEY: a row with this id is already there
DuplicateKey(p, rows) == StoredRow(p).id \in Ids(rows)

\* INSERT throws
InsertRejected(p, rows) == BadValue(p) \/ DuplicateKey(p, rows)

\* the error it throws
InsertError(p, rows) == IF BadValue(p) THEN "badValue" ELSE "duplicateKey"

\* CREATE TABLE and TRUNCATE TABLE end the open transaction of a MySQL connection
\* (implicit commit), after which the connection is back in autocommit mode;
\* in PostgreSQL both are transactional
DdlCommits == MySQL

-----------------------------------------------------------------------------
(* Sync Orchestrator: syncData *)

Triggers == {"cron", "startup", "manual"}

NewRun(t) ==
    [trigger  |-> t,          \* who called syncData
     pc       |-> "entry",    \* the await the invocation is suspended at, or "done"
     outcome  |-> "none",
     err      |-> "none",     \* the error thrown inside syncData, "none" if none
     settled  |-> "pending",  \* the promise syncData returned
     unhandled |-> FALSE,     \* it was rejected and the caller attached no handler
     response |-> 0,          \* the HTTP status GET /sync answered with, 0 if none
     products |-> <<>>,
     k        |-> 0,          \* products inserted so far
     conn     |-> FALSE,      \* holds a pooled connection / client
     inTx     |-> FALSE,      \* that connection has an open transaction
     work     |-> {},         \* the rows as the open transaction sees them
     before   |-> table]      \* history: the committed rows when syncData was called

InFlight(r) == r.pc # "done"
Running     == {i \in 1..Len(runs) : InFlight(runs[i])}

\* the guard check left out
GuardBlocksNever == FALSE

\* if (isSyncRunning) { ...; return; }
GuardBlocks == isSyncRunning

\* the flag not reset on return
GuardLeftSet == TRUE

\* finally { isSyncRunning = false; }
GuardAfterFinally == FALSE

\* the outer catch: the guarded variants log and swallow, part_001 logs and rethrows
CatchSwallows == Guarded

SettledAs(thrown) == IF thrown /\ ~CatchSwallows THEN "rejected" ELSE "resolved"

\* the caller handles a rejection: GET /sync awaits in a try/catch, the startup timer
\* chains .catch(...); cron.schedule is handed syncData itself
CallerCatches(t) == t \in {"manual", "startup"}

\* GET /sync: try { await syncData(); res.json(...) } catch { res.status(500)... }
Respond(t, settled) ==
    IF t = "manual" THEN (IF settled = "rejected" THEN 500 ELSE 200) ELSE 0

\* the connection never given back to the pool
ConnKept(held) == held

\* finally { conn.release(); }: whether the run still holds a connection
ConnAfterRelease(held) == FALSE

\* syncData returns: the run record once its promise has settled (its locals are gone)
Return(r, outcome, thrown) ==
    [r EXCEPT !.pc = "done", !.outcome = outcome,
              !.settled = SettledAs(thrown),
              !.unhandled = SettledAs(thrown) = "rejected" /\ ~CallerCatches(r.trigger),
              !.response = Respond(r.trigger, SettledAs(thrown)),
              !.products = <<>>, !.k = 0,
              !.conn = ConnAfterRelease(r.conn), !.inTx = FALSE, !.work = {},
              !.before = {}]

\* run r with the error e thrown in it
Threw(r, e) == [r EXCEPT !.err = e]

\* the flag after a run that had set it has returned
GuardOnReturn == IF Guarded THEN GuardAfterFinally ELSE isSyncRunning

\* the configuration check left out
ConfigUnchecked == FALSE

\* if (!SPREADSHEET_ID || !GOOGLE_SERVICE_ACCOUNT_EMAIL || !GOOGLE_PRIVATE_KEY)
ConfigMissing == ~configOk

\* a trigger calls syncData, which runs to its first await
SyncDataCall(t) ==
    /\ Len(runs) < MaxRuns
    /\ IF Guarded /\ GuardBlocks
       THEN /\ runs' = Append(runs, Return(NewRun(t), "skipped", FALSE))
            /\ UNCHANGED isSyncRunning
       ELSE IF ConfigMissing
       THEN /\ runs' = Append(runs, Return(Threw(NewRun(t), "config"), "configMissing", TRUE))
            /\ isSyncRunning' = GuardOnReturn
       ELSE /\ runs' = Append(runs, [NewRun(t) EXCEPT !.pc = "loadInfo"])
            /\ isSyncRunning' = IF Guarded THEN TRUE ELSE isSyncRunning
    /\ UNCHANGED <<api, variant, configOk, sheet, table, lock>>

\* cron.schedule(SYNC_INTERVAL, syncData)
CronTick == SyncDataCall("cron")

\* setTimeout(() => syncData().catch(...), 5000)
StartupTimer ==
    /\ \A i \in 1..Len(runs) : runs[i].trigger # "startup"
    /\ SyncDataCall("startup")

\* app.get('/sync', ...)
ManualSync == SyncDataCall("manual")

\* await doc.loadInfo()
LoadInfo(i) ==
    /\ runs[i].pc = "loadInfo"
    /\ \E ok \in BOOLEAN :
         IF ok
         THEN /\ runs' = [runs EXCEPT ![i].pc = "getRows"]
              /\ UNCHANGED isSyncRunning
         ELSE /\ runs' = [runs EXCEPT ![i] = Return(Threw(@, "io"), "sourceFailed", TRUE)]
              /\ isSyncRunning' = GuardOnReturn
    /\ UNCHANGED <<api, variant, configOk, sheet, table, lock>>

\* the empty check left out
SkipsEmptyNever == FALSE

\* the empty check the guarded variants make before the write phase
SkipsEmpty == Guarded

\* the first await of the write phase
WriteEntry == IF variant = "pgpool" THEN "create" ELSE "getConnection"

\* await sheet.getRows(); map, filter, the empty check
GetRows(i) ==
    /\ runs[i].pc = "getRows"
    /\ \E ok \in BOOLEAN :
         IF ~ok
         THEN /\ runs' = [runs EXCEPT ![i] = Return(Threw(@, "io"), "sourceFailed", TRUE)]
              /\ isSyncRunning' = GuardOnReturn
         ELSE LET products == Products(sheet)
              IN  IF SkipsEmpty /\ Len(products) = 0
                  THEN /\ runs' = [runs EXCEPT ![i] = Return(@, "empty", FALSE)]
                       /\ isSyncRunning' = GuardOnReturn
                  ELSE /\ runs' = [runs EXCEPT ![i].pc = WriteEntry,
                                               ![i].products = products]
                       /\ UNCHANGED isSyncRunning
    /\ UNCHANGED <<api, variant, configOk, sheet, table, lock>>

-----------------------------------------------------------------------------
(* Store Writer *)

\* const conn = await dbPool.getConnection()  /  const client = await dbPool.connect()
GetConnection(i) ==
    /\ runs[i].pc = "getConnection"
    /\ \E ok \in BOOLEAN :
         IF ok
         THEN /\ runs' = [runs EXCEPT ![i].pc = "begin", ![i].conn = TRUE]
              /\ UNCHANGED isSyncRunning
         ELSE /\ runs' = [runs EXCEPT ![i] = Return(Threw(@, "io"), "writeFailed", TRUE)]
              /\ isSyncRunning' = GuardOnReturn
    /\ UNCHANGED <<api, variant, configOk, sheet, table, lock>>

\* await conn.beginTransaction()  /  await client.query('BEGIN')
BeginTransaction(i) ==
    /\ runs[i].pc = "begin"
    /\ \E ok \in BOOLEAN :
         runs' = IF ok
                 THEN [runs EXCEPT ![i].pc = "create", ![i].inTx = TRUE, ![i].work = table]
                 ELSE [runs EXCEPT ![i].pc = "rollback", ![i].err = "io"]
    /\ UNCHANGED <<api, variant, configOk, sheet, isSyncRunning, table, lock>>

\* a statement of the write phase threw: the inner catch awaits the rollback where
\* there is one; dbPool.query has none and the error reaches the outer catch
WriteError(r, e) ==
    IF variant = "pgpool" THEN Return(Threw(r, e), "writeFailed", TRUE)
    ELSE [Threw(r, e) EXCEPT !.pc = "rollback"]

GuardOnWriteError == IF variant = "pgpool" THEN GuardOnReturn ELSE isSyncRunning

\* the rows a statement of run r reads and writes: its transaction's, or the table's
View(r) == IF r.inTx THEN r.work ELSE table

\* CREATE TABLE IF NOT EXISTS products (...)
CreateTable(i) ==
    /\ runs[i].pc = "create"
    /\ \E ok \in BOOLEAN :
         IF ok
         THEN /\ runs' = [runs EXCEPT ![i].pc = "truncate",
                                      ![i].inTx = IF DdlCommits THEN FALSE ELSE @,
                                      ![i].work = IF DdlCommits THEN {} ELSE @]
              /\ table' = IF DdlCommits THEN View(runs[i]) ELSE table
              /\ UNCHANGED isSyncRunning
         ELSE /\ runs' = [runs EXCEPT ![i] = WriteError(@, "io")]
              /\ isSyncRunning' = GuardOnWriteError
              /\ UNCHANGED table
    /\ UNCHANGED <<api, variant, configOk, sheet, lock>>

\* the truncate leaving the rows in place
TruncatedNothing(rows) == rows

\* the rows TRUNCATE TABLE products leaves
Truncated(rows) == {}

\* where the for loop over products goes next after k inserts
AfterInsert(r, k) ==
    IF k < Len(r.products) THEN "insert"
    ELSE IF variant = "pgpool" THEN "done" ELSE "commit"

\* TRUNCATE TABLE products
TruncateTable(i) ==
    /\ runs[i].pc = "truncate"
    /\ \E ok \in BOOLEAN :
         IF ok
         THEN /\ runs[i].inTx => lock \in {0, i}
              /\ runs' = [runs EXCEPT ![i].pc = AfterInsert(runs[i], 0), ![i].k = 0,
                                      ![i].work = IF runs[i].inTx /\ ~DdlCommits
                                                  THEN Truncated(@) ELSE {},
                                      ![i].inTx = IF DdlCommits THEN FALSE ELSE @]
              /\ table' = IF runs[i].inTx /\ ~DdlCommits THEN table
                          ELSE Truncated(View(runs[i]))
              /\ lock' = IF runs[i].inTx /\ ~DdlCommits THEN i ELSE lock
              /\ UNCHANGED isSyncRunning
         ELSE /\ runs' = [runs EXCEPT ![i] = WriteError(@, "io")]
              /\ isSyncRunning' = GuardOnWriteError
              /\ UNCHANGED <<table, lock>>
    /\ UNCHANGED <<api, variant, configOk, sheet>>

\* await conn.query(insertSQL, [...]) for the next product
InsertRow(i) ==
    /\ runs[i].pc = "insert"
    /\ LET r == runs[i]
           p == r.products[r.k + 1]
       IN  \E ok \in BOOLEAN :
             IF ok /\ ~InsertRejected(p, View(r))
             THEN /\ IF AfterInsert(r, r.k + 1) = "done"
                     THEN /\ runs' = [runs EXCEPT ![i] = Return(@, "success", FALSE)]
                          /\ isSyncRunning' = GuardOnReturn
                     ELSE /\ runs' = [runs EXCEPT ![i].pc = AfterInsert(r, r.k + 1),
                                                  ![i].k = r.k + 1,
                                                  ![i].work = IF r.inTx
                                                              THEN @ \cup {StoredRow(p)}
                                                              ELSE @]
                          /\ UNCHANGED isSyncRunning
                  /\ table' = IF r.inTx THEN table ELSE table \cup {StoredRow(p)}
             ELSE /\ runs' = [runs EXCEPT ![i] =
                                 WriteError(@, IF ok THEN InsertError(p, View(r)) ELSE "io")]
                  /\ isSyncRunning' = GuardOnWriteError
                  /\ UNCHANGED table
    /\ UNCHANGED <<api, variant, configOk, sheet, lock>>

\* await conn.commit()  /  await client.query('COMMIT'); then finally release
Commit(i) ==
    /\ runs[i].pc = "commit"
    /\ \E ok \in BOOLEAN :
         IF ok
         THEN /\ runs' = [runs EXCEPT ![i] = Return(@, "success", FALSE)]
              /\ table' = View(runs[i])
              /\ lock' = IF lock = i THEN 0 ELSE lock
              /\ isSyncRunning' = GuardOnReturn
         ELSE /\ runs' = [runs EXCEPT ![i].pc = "rollback", ![i].err = "io"]
              /\ UNCHANGED <<table, lock, isSyncRunning>>
    /\ UNCHANGED <<api, variant, configOk, sheet>>

\* await conn.rollback()  /  await client.query('ROLLBACK'); throw; finally release.
\* Whether the rollback succeeds or throws, the open transaction is gone and the
\* error reaches the outer catch.
Rollback(i) ==
    /\ runs[i].pc = "rollback"
    /\ \E ok \in BOOLEAN :
         /\ runs' = [runs EXCEPT ![i] = IF ok THEN Return(@, "writeFailed", TRUE)
                                         ELSE Return(Threw(@, "io"), "rollbackFailed", TRUE)]
         /\ lock' = IF lock = i THEN 0 ELSE lock
         /\ isSyncRunning' = GuardOnReturn
    /\ UNCHANGED <<api, variant, configOk, sheet, table>>

-----------------------------------------------------------------------------
(* Product API of the dual-locale variant: GET /api/products *)

\* the text "上架" of the status cell
OnShelf == <<"on-shelf">>

\* req.query.lang
Queries == {Undefined, <<"e", "n">>, <<"E", "N">>, <<"z", "h">>, <<"f", "r">>}

\* String(req.query.lang || 'zh').toLowerCase()
LangOf(q) == ToLowerCase(IF TruthyStr(q) THEN q ELSE <<"z", "h">>)

\* const safeLang = lang === 'en' ? 'en' : 'zh'
SafeLang(lang) == IF lang = <<"e", "n">> THEN "en" ELSE "zh"

\* row[`${field}_${safeLang}`]
Localized(row, field, safeLang) ==
    CASE field = "name"             -> IF safeLang = "en" THEN row.name_en
                                       ELSE row.name_zh
      [] field = "display_desc"     -> IF safeLang = "en" THEN row.display_desc_en
                                       ELSE row.display_desc_zh
      [] field = "gift_detail_desc" -> IF safeLang = "en" THEN row.gift_detail_desc_en
                                       ELSE row.gift_detail_desc_zh
      [] field = "product_desc"     -> IF safeLang = "en" THEN row.product_desc_en
                                       ELSE row.product_desc_zh
      [] field = "product_specs"    -> IF safeLang = "en" THEN row.product_specs_en
                                       ELSE row.product_specs_zh
      [] field = "shipping_info"    -> IF safeLang = "en" THEN row.shipping_info_en
                                       ELSE row.shipping_info_zh

\* the fields of a product that exist per locale
PerLocaleFields == {"name", "display_desc", "gift_detail_desc", "product_desc",
                    "product_specs", "shipping_info"}

mapProductByLang(row, lang) ==
    LET safeLang == SafeLang(lang)
    IN  [id               |-> row.id,
         price            |-> row.price,
         status           |-> row.status,
         name             |-> IF TruthyStr(Localized(row, "name", safeLang))
                              THEN Localized(row, "name", safeLang) ELSE row.name_zh,
         display_desc     |-> OrEmpty(Localized(row, "display_desc", safeLang)),
         gift_detail_desc |-> OrEmpty(Localized(row, "gift_detail_desc", safeLang)),
         product_desc     |-> OrEmpty(Localized(row, "product_desc", safeLang)),
         product_specs    |-> OrEmpty(Localized(row, "product_specs", safeLang)),
         shipping_info    |-> OrEmpty(Localized(row, "shipping_info", safeLang))]

\* SELECT * FROM products WHERE status = "上架"
OnShelfRows == {r \in table : r.status = OnShelf}

\* app.get('/api/products', ...): the answer, or none when the query threw
ApiProducts ==
    /\ variant = "mysqlDual"
    /\ \E q \in Queries, ok \in BOOLEAN :
         api' = IF ok
                THEN [path |-> "/api/products", query |-> q, answered |-> TRUE,
                      data |-> {mapProductByLang(r, LangOf(q)) : r \in OnShelfRows}]
                ELSE [path |-> "/api/products", query |-> q, answered |-> FALSE,
                      data |-> {}]
    /\ UNCHANGED <<variant, configOk, sheet, isSyncRunning, runs, table, lock>>

\* app.get('/health', ...): answers { status: 'ok', ... } from no state at all
Health ==
    /\ api' = [path |-> "/health", query |-> Undefined, answered |-> TRUE, data |-> {}]
    /\ UNCHANGED <<variant, configOk, sheet, isSyncRunning, runs, table, lock>>

\* rows of the dual-locale sheet: the English name and every text, Chinese and
\* English, filled in or left blank; on the shelf or not
Blank == <<>>
TextZh == <<"z">>
TextEn == <<"e">>

DualRawRows ==
    [id : {<<"1">>}, name : {<<"M", "u", "g">>}, price : {<<"3">>},
     status : {OnShelf, Blank},
     display_desc : {Blank, TextZh}, gift_detail_desc : {Blank, TextZh},
     product_desc : {Blank, TextZh}, product_specs : {Blank, TextZh},
     shipping_info : {Blank, TextZh},
     name_en : {Blank, <<"M", "u", "g", "E">>},
     display_desc_en : {Blank, TextEn}, gift_detail_desc_en : {Blank, TextEn},
     product_desc_en : {Blank, TextEn}, product_specs_en : {Blank, TextEn},
     shipping_info_en : {Blank, TextEn}]

DualSheets == {<<>>} \cup {<<raw>> : raw \in DualRawRows}

-----------------------------------------------------------------------------
(* The program *)

GuardedVariants == {"mysql", "mysqlDual", "pgpool"}

\* the program after start-up, in one of the variants vs, the sheet one of sheets
InitWith(vs, sheets) ==
    /\ variant \in vs
    /\ configOk \in BOOLEAN
    /\ sheet \in sheets
    /\ isSyncRunning = FALSE
    /\ runs = <<>>
    /\ table \in PriorTables(variant)
    /\ lock = 0
    /\ api = <<>>

InitOf(vs) == InitWith(vs, Sheets)

\* the dual-locale program serving readers: the table as a committed pass over a
\* sheet left it
InitApi ==
    /\ variant = "mysqlDual"
    /\ configOk = TRUE
    /\ sheet \in DualSheets
    /\ isSyncRunning = FALSE
    /\ runs = <<>>
    /\ table = {StoredRow(MapRow(sheet[i])) : i \in {j \in 1..Len(sheet) : Valid(MapRow(sheet[j]))}}
    /\ lock = 0
    /\ api = <<>>

Init     == InitOf(GuardedVariants)
InitSql  == InitOf({"mysql"})
InitPool == InitOf({"pgpool"})
InitTx   == InitOf({"pgtx"})
InitIds  == InitWith({"mysql"}, IdSheets)
InitTexts == InitWith({"pgtx"}, TextSheets)
InitOrder == InitWith({"mysql", "pgtx"}, CupSheets)
InitSched == InitWith({"mysql"}, CupSheets)
InitServe == InitWith(GuardedVariants, ShelfSheets)

Next ==
    \/ CronTick
    \/ StartupTimer
    \/ ManualSync
    \/ \E i \in 1..Len(runs) : LoadInfo(i)
    \/ \E i \in 1..Len(runs) : GetRows(i)
    \/ \E i \in 1..Len(runs) : GetConnection(i)
    \/ \E i \in 1..Len(runs) : BeginTransaction(i)
    \/ \E i \in 1..Len(runs) : CreateTable(i)
    \/ \E i \in 1..Len(runs) : TruncateTable(i)
    \/ \E i \in 1..Len(runs) : InsertRow(i)
    \/ \E i \in 1..Len(runs) : Commit(i)
    \/ \E i \in 1..Len(runs) : Rollback(i)

\* the pool-query variant never takes a client: no connection, transaction or rollback
NextPool ==
    \/ CronTick
    \/ StartupTimer
    \/ ManualSync
    \/ \E i \in 1..Len(runs) : LoadInfo(i)
    \/ \E i \in 1..Len(runs) : GetRows(i)
    \/ \E i \in 1..Len(runs) : CreateTable(i)
    \/ \E i \in 1..Len(runs) : TruncateTable(i)
    \/ \E i \in 1..Len(runs) : InsertRow(i)

NextApi == ApiProducts

\* the sync triggers and steps together with the read-only endpoints
NextServe == Next \/ Health \/ ApiProducts

\* the three guarded variants
Spec == Init /\ [][Next]_vars

\* the next step of run i, whichever await it is suspended at
RunStep(i) ==
    /\ i \in 1..Len(runs)
    /\ \/ LoadInfo(i) \/ GetRows(i) \/ GetConnection(i) \/ BeginTransaction(i)
       \/ CreateTable(i) \/ TruncateTable(i) \/ InsertRow(i) \/ Commit(i) \/ Rollback(i)

\* the guarded variants, every awaited call (Sheets API, database statement)
\* settling in the end: a suspended run is resumed
SpecFair == Init /\ [][Next]_vars /\ \A i \in 1..MaxRuns : WF_vars(RunStep(i))

\* src/index.js
SpecMySQL == InitSql /\ [][Next]_vars

\* src/index.js under a recurring schedule: the cron task keeps firing (as long as
\* the model has invocations left) and every awaited call settles in the end
SpecSched ==
    /\ InitSched
    /\ [][Next]_vars
    /\ WF_vars(CronTick)
    /\ \A i \in 1..MaxRuns : WF_vars(RunStep(i))

\* src/unnamed/part_000, second syncData
SpecPool == InitPool /\ [][NextPool]_vars

\* src/unnamed/part_001
SpecTx == InitTx /\ [][Next]_vars

\* src/index.js, the sheet's rows differing in their id cell
SpecIds == InitIds /\ [][Next]_vars

\* src/unnamed/part_001, the sheet's rows with and without text cells
SpecTexts == InitTexts /\ [][Next]_vars

\* src/index.js and src/unnamed/part_001, side by side
SpecOrder == InitOrder /\ [][Next]_vars

\* the guarded variants serving GET /health and GET /api/products while they sync
SpecServe == InitServe /\ [][NextServe]_vars

\* src/unnamed/part_000, GET /api/products of the first file
SpecApi == InitApi /\ [][NextApi]_vars

-----------------------------------------------------------------------------
(* Properties *)

FailedOutcomes == {"configMissing", "sourceFailed", "writeFailed", "rollbackFailed"}

WritePhase == {"getConnection", "begin", "create", "truncate", "insert", "commit", "rollback"}

\* the rows the inserts of the products ps store
StoredSet(ps) == {StoredRow(ps[i]) : i \in 1..Len(ps)}

RunIds == 1..Len(runs)

\* C1: in the guarded variants at most one syncData invocation is between setting
\* isSyncRunning and resetting it, whatever triggers fire and however they interleave;
\* the flag is set exactly while that invocation is in flight.
C1_AtMostOneInFlight ==
    /\ Cardinality(Running) <= 1
    /\ isSyncRunning <=> Running # {}

\* C1 witness: a run is in flight and a later trigger of another kind was turned away
C1_Witness ==
    \E i, j \in RunIds :
        /\ i < j
        /\ InFlight(runs[i])
        /\ runs[j].outcome = "skipped"
        /\ runs[i].trigger # runs[j].trigger

\* C2: in the transactional PostgreSQL variant two syncData runs are never in flight
\* at once.
C2_NoParallelSyncs ==
    variant = "pgtx" => \A i, j \in Running : i = j

\* C3: a syncData call that finds the guard set returns at once as skipped: the flag,
\* the table and every earlier run (the one in flight included) are left as they were
\* and the call never reaches the source read; and a skipped call was turned away by
\* one earlier run that was not skipped, and no run before that one is still in flight
\* (of two triggers, the first is the one run that completes, the second the one
\* skipped).
C3_SkippedIsNoOp ==
    /\ [][(isSyncRunning /\ Len(runs') = Len(runs) + 1) =>
            /\ runs'[Len(runs')].pc = "done"
            /\ runs'[Len(runs')].outcome = "skipped"
            /\ runs'[Len(runs')].settled = "resolved"
            /\ isSyncRunning' = isSyncRunning
            /\ table' = table
            /\ SubSeq(runs', 1, Len(runs)) = runs]_vars
    /\ [](\A j \in RunIds :
            runs[j].outcome = "skipped" =>
                \E i \in 1..(j - 1) :
                    /\ runs[i].outcome # "skipped"
                    /\ \A h \in (i + 1)..j : runs[h].outcome = "skipped"
                    /\ Running \subseteq i..Len(runs))

\* C3 witness: the second trigger was skipped and the first run then committed
C3_Witness ==
    /\ Len(runs) = 2
    /\ runs[1].outcome = "success"
    /\ runs[2].outcome = "skipped"
    /\ table = StoredSet(Products(sheet))

\* C4: once every syncData invocation has returned the guard is clear, whichever way
\* the run that held it ended (missing configuration, source failure, empty valid set,
\* write failure, failed rollback, success); and, every awaited call settling in the
\* end, whenever the guard is set it is cleared again later.
C4_GuardReleased ==
    /\ []((\A i \in RunIds : runs[i].pc = "done") => isSyncRunning = FALSE)
    /\ [](isSyncRunning => <>(isSyncRunning = FALSE))

\* C4 witness: a run whose rollback itself threw has returned and the guard is clear
C4_Witness ==
    /\ \E i \in RunIds : runs[i].outcome = "rollbackFailed"
    /\ Running = {}
    /\ isSyncRunning = FALSE

\* C5: in the MySQL variant the step that commits leaves the products table holding
\* exactly the rows of the pass's valid records, as many rows as valid records and no
\* row of an earlier pass.
C5_CommitReplaces ==
    [][\A i \in RunIds :
        (runs[i].pc = "commit" /\ runs'[i].outcome = "success") =>
            /\ table' = StoredSet(runs[i].products)
            /\ Cardinality(table') = Len(runs[i].products)]_vars

\* C5 witness: a pass with two valid records has committed over the old row
C5_Witness ==
    /\ \E i \in RunIds : runs[i].outcome = "success"
    /\ Running = {}
    /\ Cardinality(table) = 2
    /\ OldRow \notin table

\* C6: in the MySQL variant a run whose write phase failed and whose rollback went
\* through leaves the products table holding the rows it held when the run started.
C6_RollbackRestores ==
    [][\A i \in RunIds :
        (runs[i].pc = "rollback" /\ runs'[i].outcome = "writeFailed") =>
            table' = runs[i].before]_vars

\* C7: in the pool-query variant a reader never sees a partial commit: while a run is
\* in flight the table holds either the rows it held when the run started or the
\* complete valid set of the pass.
C7_NoPartialCommit ==
    \A i \in Running :
        table \in {runs[i].before, StoredSet(Products(sheet))}

\* C8: in the MySQL variant a pass whose mapping yields no valid record returns from
\* the read step: it never takes a connection and the table is as it was when the run
\* started.
C8_EmptyAborts ==
    [][\A i \in RunIds :
        (runs[i].pc = "getRows" /\ Len(Products(sheet)) = 0 /\ runs'[i] # runs[i]) =>
            /\ runs'[i].pc = "done"
            /\ runs'[i].outcome \in {"empty", "sourceFailed"}
            /\ table' = runs[i].before]_vars

\* C8 witness: a pass without valid records has returned and the old row is still there
C8_Witness ==
    /\ \E i \in RunIds : runs[i].outcome = "empty"
    /\ Len(sheet) > 0
    /\ table = {OldRow}

\* C9: in the transactional PostgreSQL variant a pass with an empty valid record set
\* leaves the products table as it was.
C9_EmptyKeepsRows ==
    [][\A i \in RunIds :
        (runs[i].pc \in WritePhase /\ Len(runs[i].products) = 0 /\ runs'[i].pc = "done") =>
            table' = table]_vars

\* C10: in the MySQL variant GET /sync answers 500 whenever its run failed, and 200
\* only when the run succeeded or was skipped.
C10_ManualSurfacesFailure ==
    \A i \in RunIds :
        (runs[i].trigger = "manual" /\ runs[i].pc = "done") =>
            /\ runs[i].outcome \in FailedOutcomes => runs[i].response = 500
            /\ runs[i].response = 200 => runs[i].outcome \in {"success", "skipped", "empty"}

\* C11: in the transactional PostgreSQL variant a failure of a run started by the
\* recurring schedule or by the startup timer ends in the logs: the promise syncData
\* returns to the scheduler or to the timer callback is never a rejected one that
\* nothing handles, whatever failed (configuration, source, write).
C11_FailuresSwallowed ==
    \A i \in RunIds :
        runs[i].trigger \in {"cron", "startup"} => ~runs[i].unhandled

\* C12: in the MySQL variant every record the mapper hands to the writer has an id
\* that is a positive integer and a non-empty name: a row whose id cell is missing,
\* not a number, zero, negative or fractional, or whose name cell is empty, is dropped.
C12_OnlyValidRecords ==
    \A i \in RunIds :
        \A k \in 1..Len(runs[i].products) :
            LET p == runs[i].products[k]
            IN  /\ ~p.id.nan
                /\ p.id.v > 0
                /\ p.id.v % 100 = 0
                /\ TruthyStr(p.name)

\* C13: in the MySQL variant valid records that share an id do not fail the pass: no
\* run ends on a duplicate-key error, and the commit of a pass leaves, for every
\* record, the row of the last record with that id in the table (last row wins), the
\* other ids loaded as usual.
C13_LastRowWins ==
    /\ [](\A i \in RunIds : runs[i].err # "duplicateKey")
    /\ [][\A i \in RunIds :
            (runs[i].pc = "commit" /\ runs'[i].outcome = "success") =>
                \A k \in 1..Len(runs[i].products) :
                    LET ps   == runs[i].products
                        last == CHOOSE n \in k..Len(ps) :
                                    /\ ps[n].id = ps[k].id
                                    /\ \A m \in (n + 1)..Len(ps) : ps[m].id # ps[k].id
                    IN  /\ StoredRow(ps[last]) \in table'
                        /\ \A r \in table' : r.id = StoredRow(ps[k]).id => r = StoredRow(ps[last])]_vars

C15_LocaleFallback ==
    (api # <<>> /\ api.answered /\ SafeLang(LangOf(api.query)) = "en") =>
        \A r \in OnShelfRows :
            \E d \in api.data :
                /\ d.id = r.id
                /\ \A f \in PerLocaleFields :
                    /\ TruthyStr(Localized(r, f, "en")) => d[f] = Localized(r, f, "en")
                    /\ (~TruthyStr(Localized(r, f, "en")) /\ TruthyStr(Localized(r, f, "zh"))) =>
                            d[f] = Localized(r, f, "zh")

\* C16 as stated: in the MySQL variant, the sheet being [1, Mug, "9,99"], [2, "",
\* "5.00"], the mapper yields exactly one valid record, id 1 with price 9.99 (the
\* second row is rejected for its missing name), and the commit leaves exactly that
\* one row in the table.
C16_ScenarioPriceAsDecimal ==
    /\ [](\A i \in RunIds :
            (sheet = <<RowMug, RowNoName>> /\ runs[i].pc \in WritePhase) =>
                runs[i].products =
                    <<[id |-> Num(100), name |-> <<"M", "u", "g">>, price |-> Num(999)]>>)
    /\ [][\A i \in RunIds :
            (sheet = <<RowMug, RowNoName>> /\ runs[i].pc = "commit"
                /\ runs'[i].outcome = "success") =>
                /\ table' = {[id |-> Num(100), name |-> <<"M", "u", "g">>, price |-> Num(999)]}
                /\ Cardinality(table') = 1]_vars

\* C16 amended: the same scenario yields exactly one valid record, id 1 with price 999
\* (the comma is removed as a grouping separator before the number is parsed; the
\* second row is rejected for its missing name), and the commit leaves exactly that
\* one row in the table.
C16_ScenarioCommaStripped ==
    /\ [](\A i \in RunIds :
            (sheet = <<RowMug, RowNoName>> /\ runs[i].pc \in WritePhase) =>
                runs[i].products =
                    <<[id |-> Num(100), name |-> <<"M", "u", "g">>, price |-> Num(99900)]>>)
    /\ [][\A i \in RunIds :
            (sheet = <<RowMug, RowNoName>> /\ runs[i].pc = "commit"
                /\ runs'[i].outcome = "success") =>
                /\ table' = {[id |-> Num(100), name |-> <<"M", "u", "g">>, price |-> Num(99900)]}
                /\ Cardinality(table') = 1]_vars

\* C16 witness: the scenario's pass has committed and the table holds the one row
\* with price 999
C16_Witness ==
    /\ sheet = <<RowMug, RowNoName>>
    /\ \E i \in RunIds : runs[i].outcome = "success"
    /\ Running = {}
    /\ table = {[id |-> Num(100), name |-> <<"M", "u", "g">>, price |-> Num(99900)]}

\* C17: in the transactional PostgreSQL variant the commit of a pass leaves, for
\* every mapped record, a row with the record's id, name and price in which every
\* text the mapper produced (display_desc, detail_desc, product_desc, specs,
\* shipping_info) is stored in a column: none of them is lost to NULL.
C17_StoredMatchesMapped ==
    [][\A i \in RunIds :
        (runs[i].pc = "commit" /\ runs'[i].outcome = "success") =>
            \A k \in 1..Len(runs[i].products) :
                LET p == runs[i].products[k]
                IN  \E r \in table' :
                        /\ r.id = p.id
                        /\ r.name = p.name
                        /\ r.price = p.price
                        /\ \A f \in TextFields :
                                TruthyStr(p[f]) => \E c \in TextColumns : r[c] = p[f]]_vars

\* C18: in the MySQL variant the guard is released only after the write phase has
\* ended: whenever isSyncRunning is false no run holds a pooled connection or has a
\* transaction open; a connection is held only by a run in flight in its write
\* phase, at most one at a time; and the step that clears the guard, whether after
\* the commit, the rollback or a failed rollback, leaves no connection held.
C18_GuardOutlivesWrite ==
    /\ [](~isSyncRunning => \A i \in RunIds : ~runs[i].conn /\ ~runs[i].inTx)
    /\ [](\A i \in RunIds : runs[i].conn => runs[i].pc \in WritePhase)
    /\ [](Cardinality({i \in RunIds : runs[i].conn}) <= 1)
    /\ [][(isSyncRunning /\ ~isSyncRunning') =>
            \A i \in RunIds :
                /\ ~runs'[i].conn
                /\ ~runs'[i].inTx
                /\ runs[i].conn => runs[i].pc \in {"commit", "rollback", "insert", "create",
                                                   "truncate", "begin"}]_vars

\* C18 witness: a run that held a connection and whose rollback threw has returned:
\* the guard is clear and the connection is back in the pool
C18_Witness ==
    /\ ~isSyncRunning
    /\ \E i \in RunIds :
        /\ runs[i].outcome = "rollbackFailed"
        /\ runs[i].err = "io"
        /\ ~runs[i].conn

\* C19: in index.js and in part_001 a run goes through the configuration check, the
\* source read, the mapping and the write in this order.  With the configuration
\* missing the run returns inside the call: it is never suspended at a source read or
\* a statement, and the table is untouched.  A run is suspended at the source read
\* only with the configuration present and holds no connection, no transaction and no
\* mapped record there; a run whose source read fails returns from the read without
\* having taken a connection, the table untouched.  The write phase is entered from
\* the row read alone, with the records mapped from the sheet.
C19_StepOrder ==
    /\ [](\A i \in RunIds : InFlight(runs[i]) => configOk)
    /\ [](\A i \in RunIds :
            runs[i].pc \in {"loadInfo", "getRows"} =>
                ~runs[i].conn /\ ~runs[i].inTx /\ runs[i].products = <<>>)
    /\ [][\A i \in 1..Len(runs') :
            /\ (i \notin RunIds) => runs'[i].pc \in {"loadInfo", "done"}
            /\ (runs'[i].outcome = "configMissing" /\ (i \in RunIds => InFlight(runs[i]))) =>
                    /\ i \notin RunIds
                    /\ table' = table
                    /\ lock' = lock
            /\ (i \in RunIds /\ InFlight(runs[i]) /\ runs'[i].outcome = "sourceFailed") =>
                    /\ runs[i].pc \in {"loadInfo", "getRows"}
                    /\ ~runs[i].conn
                    /\ table' = table
                    /\ Guarded => table' = runs[i].before
            /\ (i \in RunIds /\ runs'[i].pc = "getRows" /\ runs[i].pc # "getRows") =>
                    runs[i].pc = "loadInfo"
            /\ (i \in RunIds /\ runs'[i].pc \in WritePhase /\ runs[i].pc \notin WritePhase) =>
                    /\ runs[i].pc = "getRows"
                    /\ runs'[i].pc = "getConnection"
                    /\ runs'[i].products = Products(sheet)]_vars

\* C19 witness: in part_001 a run whose source read failed has returned while the
\* old row is still in the table and no run holds a connection
C19_Witness ==
    /\ variant = "pgtx"
    /\ \E i \in RunIds : runs[i].outcome = "sourceFailed"
    /\ \A i \in RunIds : ~runs[i].conn
    /\ table = {OldRowTx}

\* C20: in the MySQL variant a failed run never blocks later runs.  A trigger that
\* fires once every earlier run has returned (failed ones included) is not skipped:
\* it finds the guard idle and, the configuration present, its run is in flight
\* with the guard set.  And under a recurring schedule every failed run, as long as
\* an invocation is left, is followed by a run that was started, not skipped.
C20_FailureDoesNotBlock ==
    /\ [][(Len(runs') = Len(runs) + 1 /\ \A i \in RunIds : runs[i].pc = "done") =>
            /\ ~isSyncRunning
            /\ runs'[Len(runs')].outcome # "skipped"
            /\ configOk => (InFlight(runs'[Len(runs')]) /\ isSyncRunning')]_vars
    /\ \A n \in 1..(MaxRuns - 1) :
            []((Len(runs) = n /\ runs[n].outcome \in FailedOutcomes) =>
                    <>(Len(runs) > n /\ runs[n + 1].outcome # "skipped"))

\* C20 witness: the first run failed in its write phase and the cron tick after it
\* started a run that committed
C20_Witness ==
    /\ Len(runs) >= 2
    /\ runs[1].outcome = "writeFailed"
    /\ runs[2].trigger = "cron"
    /\ runs[2].outcome = "success"

\* C21: in the MySQL variant a trigger that arrives while a run is in flight is
\* dropped, not queued.  Step by step: a trigger that finds the guard set adds a
\* skipped call and starts nothing (the runs in flight and the guard are as before); a
\* trigger that finds the guard idle is not skipped; a skipped call never changes
\* again, so it causes no run later; and a run enters Running, and the guard goes from
\* idle to set, only in the step of a trigger that found the guard idle.  Hence as
\* many runs enter Running as triggers found the guard idle, and after the run in
\* flight has finished the system stays idle until a new trigger fires.
C21_DroppedNotQueued ==
    [][/\ Len(runs') \in {Len(runs), Len(runs) + 1}
       /\ (Len(runs') = Len(runs) + 1 /\ isSyncRunning) =>
            /\ runs'[Len(runs')].outcome = "skipped"
            /\ SubSeq(runs', 1, Len(runs)) = runs
            /\ {i \in 1..Len(runs') : InFlight(runs'[i])} = Running
            /\ isSyncRunning'
       /\ (Len(runs') = Len(runs) + 1 /\ ~isSyncRunning) =>
            runs'[Len(runs')].outcome # "skipped"
       /\ \A i \in RunIds : runs[i].outcome = "skipped" => runs'[i] = runs[i]
       /\ (~isSyncRunning /\ isSyncRunning') => Len(runs') = Len(runs) + 1
       /\ ({i \in 1..Len(runs') : InFlight(runs'[i])} \ Running # {}) =>
            /\ Len(runs') = Len(runs) + 1
            /\ ~isSyncRunning
            /\ {i \in 1..Len(runs') : InFlight(runs'[i])} = {Len(runs')}]_vars

\* C21 witness: the second trigger was dropped while the first run was in flight; that
\* run has since failed in its write phase and the system is idle, no run in flight
C21_Witness ==
    /\ Len(runs) = 2
    /\ runs[1].outcome = "writeFailed"
    /\ runs[2].outcome = "skipped"
    /\ Running = {}
    /\ ~isSyncRunning

\* C22: in the guarded variants the products table is changed only by the write phase
\* of a run that holds the guard: every step that changes the row set starts in a
\* state with isSyncRunning set and is a step of a run in flight in its write phase;
\* the answers of GET /health and GET /api/products and a skipped syncData call leave
\* the table as it was.
C22_OnlyWriterMutates ==
    [][/\ table' # table =>
            /\ isSyncRunning
            /\ \E i \in Running :
                /\ runs[i].pc \in WritePhase
                /\ runs'[i] # runs[i]
                /\ \A j \in RunIds \ {i} : runs'[j] = runs[j]
            /\ api' = api
       /\ api' # api => table' = table /\ runs' = runs /\ isSyncRunning' = isSyncRunning
       /\ (Len(runs') = Len(runs) + 1 /\ runs'[Len(runs')].outcome = "skipped") =>
            table' = table]_vars

\* C22 witness: a pass has committed the sheet's row and GET /api/products has
\* answered with it
C22_Witness ==
    /\ \E i \in RunIds : runs[i].outcome = "success"
    /\ table = StoredSet(Products(sheet))
    /\ table # {}
    /\ api # <<>>
    /\ api.path = "/api/products"
    /\ api.answered
    /\ api.data # {}

=============================================================================
